---- MODULE Spec2Model ----
(***************************************************************************)
(* Model of AmqpSocket (src/src/amqp.ts, and the older copy of the same    *)
(* class in src/src/index.ts): the handler registry, the consume callback  *)
(* of listen() and the envelope publisher.                                  *)
(*                                                                          *)
(* JavaScript runs the consume callback of one message until its next      *)
(* `await`; each action below is one such run-to-completion segment:       *)
(*   Consume          amqp.ts 134-150: ack, decode, start the lookup       *)
(*   LookupSettles    amqp.ts 150-187: drop / error envelope / invoke      *)
(*   HandlerSettles   amqp.ts 186-193: success or error envelope           *)
(* Several messages may be suspended at an `await` at the same time.       *)
(***************************************************************************)
EXTENDS Integers, Sequences, FiniteSets, TLC

VARIABLES
  handlers,    \* AmqpSocket.handlers: own properties of the registry object
  channelOpen, \* the amqplib channel still accepts publish()
  msg,         \* per delivery: the consume callback's locals and its effects
  session      \* per delivery: the session its frontend message belongs to

vars == <<handlers, channelOpen, msg, session>>

(***************************************************************************)
(* Bounds                                                                  *)
(***************************************************************************)
\* number of deliveries; all of them may be in flight together
MaxMsgs == 2

Msgs == 1..MaxMsgs

(***************************************************************************)
(* JavaScript values.  A value that can end up in the envelope's `value`   *)
(* slot is a tuple of strings: <<"undefined">>, <<"str", s>>,              *)
(* <<"obj", key, s>> for the one-field object {key: s}, <<"bigint", n>>.   *)
(***************************************************************************)
Undefined == "undefined"
Null == "null"

JsUndefined == <<"undefined">>
JsString(s) == <<"str", s>>
JsObject(k, s) == <<"obj", k, s>>
JsBigInt == <<"bigint", "1">>

\* AmqpConfig, as in the README example
SuccessType == "example_service_result"
ErrorType == "example_service_error"
ResponseExchange == "ui-direct-exchange"

DefaultAction == "__default"

(***************************************************************************)
(* Handler registry: `private handlers: Record<string, AuthHandler> = {}`. *)
(* It is a plain object, so besides its own properties it inherits those   *)
(* of Object.prototype; ProtoKeys are two of them.  Object.prototype also  *)
(* carries the accessor "__proto__": assigning a function to that key      *)
(* makes the function the object's prototype, and reading it gives the     *)
(* prototype back.  `handlers` holds the own properties and, under the key *)
(* "__proto__", a prototype set that way; the object then inherits the     *)
(* properties of Function.prototype as well (FnProtoKeys is one of them).  *)
(***************************************************************************)
UserHandlers == {"h1", "h2"}
\* the handle(key, handler) calls the embedder makes
Registrations == {<<"foo", "h1">>, <<"foo", "h2">>, <<DefaultAction, "h2">>}
ProtoKeys == {"toString", "constructor"}

ProtoFn(k) == IF k = "toString" THEN "Object.prototype.toString" ELSE "Object"
ProtoAccessor == "__proto__"
FnProtoKeys == {"call"}

\* `key in this.handlers`
InHandlers(h, key) ==
  \/ key \in DOMAIN h \/ key \in ProtoKeys \/ key = ProtoAccessor
  \/ ProtoAccessor \in DOMAIN h /\ key \in FnProtoKeys

\* `this.handlers[key]`
\* (variant: a binding, once made, is not replaced by a later handle())
GetHandler_firstBound(h, key) == IF key \in DOMAIN h THEN "h1" ELSE Undefined
GetHandler(h, key) ==
  IF key \in DOMAIN h THEN h[key]
  ELSE IF key = ProtoAccessor THEN "Object.prototype"
  ELSE IF ProtoAccessor \in DOMAIN h /\ key \in FnProtoKeys
  THEN "Function.prototype.call"
  ELSE IF key \in ProtoKeys THEN ProtoFn(key)
  ELSE Undefined

\* `this.handlers[key] = handler`
SetHandler(h, key, handler) ==
  [k \in DOMAIN h \cup {key} |-> IF k = key THEN handler ELSE h[k]]

(***************************************************************************)
(* Inbound message.  Delivery m carries call id "call-m" and comes from    *)
(* session[m], one of two sessions.                                        *)
(***************************************************************************)
Sessions == {"session-A", "session-B"}
SessionOf(m) == session[m]
UserOf(m) == IF session[m] = "session-A" THEN "user-A" ELSE "user-B"
CallOf(m) == "call-" \o ToString(m)

\* message.properties.headers.message: the frontend message as JSON text
RawHeader(m, wellFormed) ==
  [wellFormed |-> wellFormed, sessionID |-> SessionOf(m),
   userID |-> UserOf(m), callID |-> CallOf(m)]

\* message.properties.headers
HeadersOf(m, wellFormed) == [message |-> RawHeader(m, wellFormed)]

\* JSON.parse(...) as AmqpFrontendMessage; a SyntaxError when malformed
\* (variant: a lenient parser that never throws)
ParseThrows_never(raw) == FALSE
ParseThrows(raw) == ~raw.wellFormed
ParseHeader(raw) ==
  [sessionData |-> [sessionID |-> raw.sessionID, userID |-> raw.userID],
   fromFrontend |-> [callID |-> raw.callID]]

\* what config.bodyMapper(message) gives: it throws, or a body whose action
\* is absent or a string
BodyThrows == "throws"
Actions == {"foo", "ghost", "toString"}
BodyInputs == {BodyThrows, Undefined} \cup Actions

\* the body bodyMapper extracts from delivery m: the action, if any, and the
\* rest of the request
BodyOf(m, bodyIn) == [action |-> bodyIn, data |-> "data-" \o ToString(m)]

(***************************************************************************)
(* routingKeyStore.get(sessionId): the store is not part of the sources;   *)
(* it answers a key, undefined or null, or its promise rejects.            *)
(***************************************************************************)
KeyOf(sid) == "rk-" \o sid
Rejects == "rejects"
StoreAnswerKinds == {"key", Undefined, Null, Rejects}
StoreAnswer(sid, kind) == IF kind = "key" THEN KeyOf(sid) ELSE kind

(***************************************************************************)
(* Envelope publisher: publish, publishError, publishSuccess.              *)
(***************************************************************************)
\* an Error object as caught by `catch (error)`
ErrorObj(text) == [isError |-> TRUE, message |-> text]

\* the AmqpResponse built by publish()
Envelope(context, response, type) ==
  [value |-> response, type |-> type, callID |-> context.callID]

\* JSON.stringify(responseMessage): a TypeError for a BigInt; a property
\* whose value is undefined is left out of the text
StringifyThrows(env) == env.value = JsBigInt
Stringify(env) ==
  (IF env.value = JsUndefined THEN <<>> ELSE << <<"value", env.value>> >>)
    \o << <<"type", JsString(env.type)>>, <<"callID", JsString(env.callID)>> >>

\* what the frontend reads back from the published buffer
JsonField(content, key) ==
  IF \E i \in DOMAIN content : content[i][1] = key
  THEN content[CHOOSE i \in DOMAIN content : content[i][1] = key][2]
  ELSE JsUndefined

\* the arguments of this.channel.publish(exchange, routingKey, buffer, options);
\* `ok` is whether the channel took the message or threw
PublishCall(context, env) ==
  [exchange |-> ResponseExchange, routingKey |-> context.routingKey,
   content |-> Stringify(env), headers |-> context.headers, ok |-> channelOpen]

\* publish(): the channel.publish calls it makes, and whether it threw
Publish(context, response, type) ==
  LET env == Envelope(context, response, type)
  IN  IF StringifyThrows(env)
      THEN [calls |-> <<>>, threw |-> TRUE,
            error |-> ErrorObj("Do not know how to serialize a BigInt")]
      ELSE [calls |-> <<PublishCall(context, env)>>, threw |-> ~channelOpen,
            error |-> ErrorObj("Channel closed")]

\* (variant of publishError: tagged with the success type)
PublishError_successType(context, error) ==
  Publish(context, JsObject("error", error), SuccessType)
PublishError(context, error) == Publish(context, JsObject("error", error), ErrorType)

PublishSuccess(context, response) == Publish(context, response, SuccessType)

(***************************************************************************)
(* Handlers.  A registered handler is arbitrary user code: it resolves     *)
(* with a result or rejects with any value.  The inherited functions of    *)
(* Object.prototype return at once.                                        *)
(***************************************************************************)
OkOutcome(v) == [kind |-> "ok", value |-> v, isError |-> FALSE, message |-> ""]
\* rejection with an Error(text), or with a value that is not an Error
\* (the thrown string text)
ThrowOutcome(isErr, text) ==
  [kind |-> "throw", value |-> JsUndefined, isError |-> isErr, message |-> text]

ResultBar == JsObject("bar", "bar")

UserOutcomes ==
  {OkOutcome(ResultBar), OkOutcome(JsBigInt),
   ThrowOutcome(TRUE, "boom"), ThrowOutcome(FALSE, "boom")}

OutcomesOf(handler, body) ==
  IF handler \in UserHandlers THEN UserOutcomes
  ELSE IF handler = "Object.prototype.toString"
       THEN {OkOutcome(JsString("[object Undefined]"))}
       ELSE {OkOutcome(JsObject("action", body.action))}

(***************************************************************************)
(* The consume callback of listen().  Per delivery:                        *)
(*   phase          "idle" (not delivered), "null" (null delivery),        *)
(*                  "lookup" / "handler" (suspended at that await), "done" *)
(*   wellFormed     whether the header's JSON text parses                  *)
(*   bodyIn         what bodyMapper gave: BodyThrows, Undefined, an action *)
(*   acks           number of channel.ack calls                            *)
(*   headerContent, body, context   the locals of that name, once set      *)
(*   sidAsked       the argument of routingKeyStore.get                    *)
(*   rk             the lookup's answer ("none" before it answers)         *)
(*   invoked        the handler calls: handler, body and session passed    *)
(*   outcome        how the awaited handler settled                        *)
(*   pubs           the channel.publish calls, in order                    *)
(*   fault          the exception that left the callback, if any           *)
(*   trace          the steps taken, in order                              *)
(***************************************************************************)
IdleMsg ==
  [phase |-> "idle", wellFormed |-> FALSE, bodyIn |-> Undefined, acks |-> 0,
   headerContent |-> <<>>, body |-> <<>>, sidAsked |-> <<>>, rk |-> "none",
   context |-> <<>>, invoked |-> <<>>, outcome |-> <<>>, pubs |-> <<>>,
   fault |-> "none", trace |-> <<>>]

\* `const sessionId = headerContent.sessionData.sessionID`
\* (variant: keyed by the user instead of the session)
SessionIdOf_userID(headerContent) == headerContent.sessionData.userID
SessionIdOf(headerContent) == headerContent.sessionData.sessionID

\* `routingKey == undefined` (amqp.ts), `routingKey == null` (index.ts)
\* (variant: `=== undefined`, which lets null through)
IsAbsent_strict(routingKey) == routingKey = Undefined
\* (variant: no test at all)
IsAbsent_never(routingKey) == FALSE
IsAbsent(routingKey) == routingKey \in {Undefined, Null}

\* the PublishContext literal
\* (variant: the call id of another delivery)
BuildContext_staleCall(routingKey, headerContent, headers) ==
  [routingKey |-> routingKey, callID |-> CallOf(1), headers |-> headers]
\* (variant: one context object kept on the socket and reused once built)
BuildContext_shared(routingKey, headerContent, headers) ==
  IF \E k \in Msgs : msg[k].context # <<>>
  THEN msg[CHOOSE k \in Msgs : msg[k].context # <<>>].context[1]
  ELSE [routingKey |-> routingKey, callID |-> headerContent.fromFrontend.callID,
        headers |-> headers]
BuildContext(routingKey, headerContent, headers) ==
  [routingKey |-> routingKey, callID |-> headerContent.fromFrontend.callID,
   headers |-> headers]

\* `body.action ??= "__default"` (amqp.ts)
\* (variant: plain assignment)
DefaultedAction_assigned(action) == DefaultAction
DefaultedAction(action) == IF action = Undefined THEN DefaultAction ELSE action
\* `body.action = "__default"` (index.ts)
OverwrittenAction(action) == DefaultAction

\* `error instanceof Error ? error.message : "An error occurred"`
\* (variant: without the instanceof test)
ErrorText_always(error) == error.message
ErrorText(error) == IF error.isError THEN error.message ELSE "An error occurred"

NoActionText == "No action specified"
UnknownActionText(action) == "Action \"" \o action \o "\" doesn't exist"

(***************************************************************************)
(* State after construction: empty registry, open channel, no delivery.   *)
(***************************************************************************)
\* the frontend messages to come: deliveries alternate between two sessions
Alternating == [m \in Msgs |-> IF m % 2 = 1 THEN "session-A" ELSE "session-B"]

Init ==
  /\ handlers = <<>>
  /\ channelOpen = TRUE
  /\ msg = [m \in Msgs |-> IdleMsg]
  /\ session = Alternating

\* handle(key, handler)
Handle(key, handler) ==
  /\ handlers' = SetHandler(handlers, key, handler)
  /\ UNCHANGED <<channelOpen, msg, session>>

\* no delivery after the broker cancelled the consumer
\* (variant: nor while the callback of an earlier delivery is suspended)
Cancelled_orPending ==
  \E k \in Msgs : msg[k].phase \in {"null", "lookup", "handler"}
Cancelled == \E k \in Msgs : msg[k].phase = "null"

\* delivery m is null (the consumer was cancelled): `if (!message) return`
ConsumeNull(m) ==
  /\ msg[m].phase = "idle"
  /\ \A k \in Msgs : k < m => msg[k].phase # "idle"
  /\ channelOpen /\ ~Cancelled
  /\ msg' = [msg EXCEPT ![m].phase = "null"]
  /\ UNCHANGED <<handlers, channelOpen, session>>

\* the channel closes; from now on channel.publish throws
ChannelCloses ==
  /\ channelOpen
  /\ channelOpen' = FALSE
  /\ UNCHANGED <<handlers, msg, session>>

\* `this.channel.ack(message)`
\* (variant: the message is never acknowledged)
Ack_skipped(delivery) == delivery
\* (variant: acknowledged on receipt and again)
Ack_twice(delivery) ==
  [delivery EXCEPT !.acks = @ + 2, !.trace = @ \o <<"ack">>]
Ack(delivery) == [delivery EXCEPT !.acks = @ + 1, !.trace = @ \o <<"ack">>]

\* delivery of message m, up to `await this.routingKeyStore.get(sessionId)`
Consume(m, wellFormed, bodyIn) ==
  /\ msg[m].phase = "idle"
  /\ \A k \in Msgs : k < m => msg[k].phase # "idle"
  /\ channelOpen /\ ~Cancelled
  /\ LET raw == HeadersOf(m, wellFormed).message
         acked == Ack([msg[m] EXCEPT !.wellFormed = wellFormed])
     IN  msg' = [msg EXCEPT ![m] =
           IF ParseThrows(raw)
           THEN [acked EXCEPT !.phase = "done", !.fault = "decode",
                              !.trace = @ \o <<"parseHeader">>]
           ELSE IF bodyIn = BodyThrows
           THEN [acked EXCEPT !.phase = "done", !.fault = "decode",
                              !.bodyIn = bodyIn,
                              !.headerContent = <<ParseHeader(raw)>>,
                              !.trace = @ \o <<"parseHeader", "bodyMapper">>]
           ELSE [acked EXCEPT !.phase = "lookup", !.bodyIn = bodyIn,
                              !.headerContent = <<ParseHeader(raw)>>,
                              !.body = <<BodyOf(m, bodyIn)>>,
                              !.sidAsked = <<SessionIdOf(ParseHeader(raw))>>,
                              !.trace = @ \o <<"parseHeader", "bodyMapper", "lookup">>]]
  /\ UNCHANGED <<handlers, channelOpen, session>>

\* lines 152-187 of amqp.ts (171-200 of index.ts) once the lookup has answered
\* `routingKey`; `action` is body.action after the defaulting statement
AfterLookup(m, routingKey, action) ==
  LET headerContent == msg[m].headerContent[1]
      body == msg[m].body[1]
      context == BuildContext(routingKey, headerContent,
                              HeadersOf(m, msg[m].wellFormed))
      seen == [msg[m] EXCEPT !.rk = routingKey]
      resolved == [seen EXCEPT !.context = <<context>>]
  IN  IF IsAbsent(routingKey)
      THEN [seen EXCEPT !.phase = "done", !.trace = @ \o <<"drop">>]
      ELSE IF body.action = Undefined /\ ~InHandlers(handlers, DefaultAction)
      THEN [resolved EXCEPT !.phase = "done",
              !.pubs = @ \o PublishError(context, NoActionText).calls,
              !.fault = IF PublishError(context, NoActionText).threw
                        THEN "publish" ELSE "none",
              !.trace = @ \o <<"noAction", "publishError">>]
      ELSE IF ~InHandlers(handlers, action)
      THEN [resolved EXCEPT !.phase = "done", !.body = <<[body EXCEPT !.action = action]>>,
              !.pubs = @ \o PublishError(context, UnknownActionText(action)).calls,
              !.fault = IF PublishError(context, UnknownActionText(action)).threw
                        THEN "publish" ELSE "none",
              !.trace = @ \o <<"unknownAction", "publishError">>]
      ELSE [resolved EXCEPT !.phase = "handler", !.body = <<[body EXCEPT !.action = action]>>,
              !.invoked = @ \o <<[handler |-> GetHandler(handlers, action),
                                  body |-> [body EXCEPT !.action = action],
                                  session |-> headerContent.sessionData]>>,
              !.trace = @ \o <<"invoke">>]

\* (variant: defaulting the action also enters "__default" in the registry)
LookupSettles_storesDefault(m, kind) ==
  /\ msg[m].phase = "lookup"
  /\ msg' = [msg EXCEPT ![m] =
       IF kind = Rejects
       THEN [@ EXCEPT !.phase = "done", !.fault = "lookup",
                      !.trace = @ \o <<"lookupRejected">>]
       ELSE AfterLookup(m, StoreAnswer(msg[m].sidAsked[1], kind),
                        DefaultedAction(msg[m].body[1].action))]
  /\ handlers' = IF kind = "key" /\ msg[m].body[1].action = Undefined
                 THEN SetHandler(handlers, DefaultAction, Undefined)
                 ELSE handlers
  /\ UNCHANGED <<channelOpen, session>>

\* the lookup of message m settles (amqp.ts)
LookupSettles(m, kind) ==
  /\ msg[m].phase = "lookup"
  /\ msg' = [msg EXCEPT ![m] =
       IF kind = Rejects
       THEN [@ EXCEPT !.phase = "done", !.fault = "lookup",
                      !.trace = @ \o <<"lookupRejected">>]
       ELSE AfterLookup(m, StoreAnswer(msg[m].sidAsked[1], kind),
                        DefaultedAction(msg[m].body[1].action))]
  /\ UNCHANGED <<handlers, channelOpen, session>>

\* the lookup of message m settles (index.ts)
LookupSettlesIndex(m, kind) ==
  /\ msg[m].phase = "lookup"
  /\ msg' = [msg EXCEPT ![m] =
       IF kind = Rejects
       THEN [@ EXCEPT !.phase = "done", !.fault = "lookup",
                      !.trace = @ \o <<"lookupRejected">>]
       ELSE AfterLookup(m, StoreAnswer(msg[m].sidAsked[1], kind),
                        OverwrittenAction(msg[m].body[1].action))]
  /\ UNCHANGED <<handlers, channelOpen, session>>

\* (variant: no try/catch around the handler call, so a rejection leaves the
\* callback)
AfterHandler_noCatch(m, outcome) ==
  LET settled == [msg[m] EXCEPT !.outcome = <<outcome>>, !.phase = "done"]
      first == PublishSuccess(msg[m].context[1], outcome.value)
  IN  IF outcome.kind = "ok"
      THEN [settled EXCEPT !.pubs = @ \o first.calls,
                           !.fault = IF first.threw THEN "publish" ELSE "none",
                           !.trace = @ \o <<"resolved", "publishSuccess">>]
      ELSE [settled EXCEPT !.fault = "handler", !.trace = @ \o <<"rejected">>]

\* `await handler(body, headerContent.sessionData)` settles: the try/catch
AfterHandler(m, outcome) ==
  LET context == msg[m].context[1]
      settled == [msg[m] EXCEPT !.outcome = <<outcome>>, !.phase = "done"]
      first == PublishSuccess(context, outcome.value)
      caught == IF outcome.kind = "ok" THEN first.error
                ELSE [isError |-> outcome.isError, message |-> outcome.message]
      second == PublishError(context, ErrorText(caught))
  IN  IF outcome.kind = "ok" /\ ~first.threw
      THEN [settled EXCEPT !.pubs = @ \o first.calls,
                           !.trace = @ \o <<"resolved", "publishSuccess">>]
      ELSE [settled EXCEPT
              !.pubs = @ \o (IF outcome.kind = "ok" THEN first.calls ELSE <<>>)
                         \o second.calls,
              !.fault = IF second.threw THEN "publish" ELSE "none",
              !.trace = @ \o (IF outcome.kind = "ok"
                               THEN <<"resolved", "publishSuccess">>
                               ELSE <<"rejected">>)
                          \o <<"catch", "publishError">>]

HandlerSettles(m, outcome) ==
  /\ msg[m].phase = "handler"
  /\ outcome \in OutcomesOf(msg[m].invoked[1].handler, msg[m].invoked[1].body)
  /\ msg' = [msg EXCEPT ![m] = AfterHandler(m, outcome)]
  /\ UNCHANGED <<handlers, channelOpen, session>>

Environment ==
  \/ \E r \in Registrations : Handle(r[1], r[2])
  \/ \E m \in Msgs : ConsumeNull(m)
  \/ ChannelCloses
  \/ \E m \in Msgs, wellFormed \in BOOLEAN, bodyIn \in BodyInputs :
       Consume(m, wellFormed, bodyIn)
  \/ \E m \in Msgs, outcome \in UserOutcomes \cup
                     {OkOutcome(JsString("[object Undefined]"))} :
       HandlerSettles(m, outcome)

\* listen() of src/src/amqp.ts
Next ==
  \/ Environment
  \/ \E m \in Msgs, kind \in StoreAnswerKinds : LookupSettles(m, kind)

\* listen() of src/src/index.ts
NextIndex ==
  \/ Environment
  \/ \E m \in Msgs, kind \in StoreAnswerKinds : LookupSettlesIndex(m, kind)

Spec == Init /\ [][Next]_vars
SpecIndex == Init /\ [][NextIndex]_vars

\* all deliveries come from one session
OneSession == [m \in Msgs |-> "session-A"]
InitOneSession ==
  /\ handlers = <<>>
  /\ channelOpen = TRUE
  /\ msg = [m \in Msgs |-> IdleMsg]
  /\ session = OneSession

SpecOneSession == InitOneSession /\ [][Next]_vars

\* the registry is filled before listen() and handle() is not called again
Registries ==
  {<<>>, [foo |-> "h1"], [foo |-> "h2"], [__default |-> "h2"],
   [foo |-> "h1", __default |-> "h2"], [foo |-> "h2", __default |-> "h2"]}
InitFixed ==
  /\ handlers \in Registries
  /\ channelOpen = TRUE
  /\ msg = [m \in Msgs |-> IdleMsg]
  /\ session = Alternating

NextFixed ==
  \/ \E m \in Msgs : ConsumeNull(m)
  \/ ChannelCloses
  \/ \E m \in Msgs, wellFormed \in BOOLEAN, bodyIn \in BodyInputs :
       Consume(m, wellFormed, bodyIn)
  \/ \E m \in Msgs, kind \in StoreAnswerKinds : LookupSettles(m, kind)
  \/ \E m \in Msgs, outcome \in UserOutcomes \cup
                     {OkOutcome(JsString("[object Undefined]"))} :
       HandlerSettles(m, outcome)

SpecFixed == InitFixed /\ [][NextFixed]_vars

\* handle() is called only while the lookup of some message is pending
HandleLate(key, handler) ==
  /\ \E m \in Msgs : msg[m].phase = "lookup"
  /\ Handle(key, handler)

NextLate ==
  \/ \E r \in Registrations : HandleLate(r[1], r[2])
  \/ \E m \in Msgs : ConsumeNull(m)
  \/ ChannelCloses
  \/ \E m \in Msgs, wellFormed \in BOOLEAN, bodyIn \in BodyInputs :
       Consume(m, wellFormed, bodyIn)
  \/ \E m \in Msgs, kind \in StoreAnswerKinds : LookupSettles(m, kind)
  \/ \E m \in Msgs, outcome \in UserOutcomes \cup
                     {OkOutcome(JsString("[object Undefined]"))} :
       HandlerSettles(m, outcome)

SpecLate == Init /\ [][NextLate]_vars

\* handle() calls alone, for any key an embedder may pass
RegistryKeys == {"foo", "bar", DefaultAction, "toString", ProtoAccessor}
NextRegistry ==
  \E key \in RegistryKeys, handler \in UserHandlers : Handle(key, handler)

SpecRegistry == Init /\ [][NextRegistry]_vars

\* every pending promise settles: the store answers (or rejects) each lookup
\* and each invoked handler resolves or rejects
Settling ==
  \A m \in Msgs :
    /\ WF_vars(\E kind \in StoreAnswerKinds : LookupSettles(m, kind))
    /\ WF_vars(\E outcome \in UserOutcomes \cup
                  {OkOutcome(JsString("[object Undefined]"))} :
                HandlerSettles(m, outcome))

SpecLive == Init /\ [][Next]_vars /\ Settling

(***************************************************************************)
(* Properties                                                              *)
(***************************************************************************)
\* the inbound header of delivery m, as the frontend wrote it
InboundHeader(m) == ParseHeader(HeadersOf(m, msg[m].wellFormed).message)

\* the envelope the frontend decodes from a channel.publish call
EnvValue(call) == JsonField(call.content, "value")
EnvType(call) == JsonField(call.content, "type")
EnvCallID(call) == JsonField(call.content, "callID")

IsErrorEnvelope(call, m, text) ==
  /\ EnvValue(call) = JsObject("error", text)
  /\ EnvType(call) = JsString(ErrorType)
  /\ EnvCallID(call) = JsString(InboundHeader(m).fromFrontend.callID)

IsSuccessEnvelope(call, m, result) ==
  /\ EnvValue(call) = result
  /\ EnvType(call) = JsString(SuccessType)
  /\ EnvCallID(call) = JsString(InboundHeader(m).fromFrontend.callID)

\* C1: every envelope published for a message, success or error, carries the
\* callID of that message's own inbound header, also while other messages
\* are in flight.
C1_CallIdEchoed ==
  \A m \in Msgs : \A i \in DOMAIN msg[m].pubs :
    EnvCallID(msg[m].pubs[i]) = JsString(InboundHeader(m).fromFrontend.callID)

\* message 2 has its envelope out while message 1 is still awaiting its handler
C1_Witness ==
  /\ msg[1].phase = "handler"
  /\ msg[2].pubs # <<>>
  /\ EnvCallID(msg[2].pubs[1]) = JsString("call-2")

\* C2: a message whose lookup answered undefined or null never has an
\* envelope published, whatever its action and the registry.
C2_AbsentAddressDropped ==
  \A m \in Msgs : msg[m].rk \in {Undefined, Null} => msg[m].pubs = <<>>

\* a message for a registered action was dropped on a null answer
C2_Witness ==
  \E m \in Msgs :
    /\ msg[m].rk = Null /\ msg[m].phase = "done"
    /\ msg[m].bodyIn = "foo" /\ "foo" \in DOMAIN handlers

\* C8: a handler that resolved with r leaves exactly one publish for its
\* message, the success envelope {value: r, type: successType, callID}.
C8_SuccessPublishedOnce ==
  \A m \in Msgs :
    (msg[m].outcome # <<>> /\ msg[m].outcome[1].kind = "ok")
      => /\ Len(msg[m].pubs) = 1
         /\ IsSuccessEnvelope(msg[m].pubs[1], m, msg[m].outcome[1].value)

\* C9: every publish goes to the response exchange, with the routing key the
\* store holds for the session id of the message's own header, and with the
\* inbound headers.
C9_AddressAndHeaders ==
  \A m \in Msgs : \A i \in DOMAIN msg[m].pubs :
    /\ msg[m].pubs[i].exchange = ResponseExchange
    /\ msg[m].pubs[i].routingKey = KeyOf(InboundHeader(m).sessionData.sessionID)
    /\ msg[m].pubs[i].headers = HeadersOf(m, TRUE)

\* both sessions have been answered, one with a success and one with an error
C9_Witness ==
  /\ msg[1].pubs # <<>> /\ msg[1].pubs[1].routingKey = "rk-session-A"
  /\ EnvType(msg[1].pubs[1]) = JsString(SuccessType)
  /\ msg[2].pubs # <<>> /\ msg[2].pubs[1].routingKey = "rk-session-B"
  /\ EnvType(msg[2].pubs[1]) = JsString(ErrorType)

\* C10: channel.publish is called at most once per message, on every path.
C10_PublishAtMostOnce ==
  \A m \in Msgs : Len(msg[m].pubs) <= 1

\* the step in which message m's lookup answers an address
ResolvedStep(m) ==
  /\ msg[m].phase = "lookup" /\ msg'[m].phase # "lookup"
  /\ msg'[m].rk \notin {"none", Undefined, Null}

\* the step in which message m's handler settles
SettledStep(m) == msg[m].phase = "handler" /\ msg'[m].phase = "done"

\* a finished message changes no more, and handlers are invoked only by the
\* step that ends the lookup
NothingAfterwards(m) ==
  /\ msg[m].phase = "done" => msg'[m] = msg[m]
  /\ msg[m].phase # "lookup" => msg'[m].invoked = msg[m].invoked

\* C3: a message whose action is registered invokes exactly the handler bound
\* to that action when the message is dispatched, and no other handler.
C3_RegisteredActionDispatch ==
  [][\A m \in Msgs :
       /\ NothingAfterwards(m)
       /\ (ResolvedStep(m) /\ msg[m].bodyIn \in DOMAIN handlers)
            => /\ Len(msg'[m].invoked) = 1
               /\ msg'[m].invoked[1].handler = handlers[msg[m].bodyIn]]_vars

\* C4: a message without action, dispatched while "__default" is registered,
\* invokes exactly that handler, and what is published is the handler's
\* outcome: its result in a success envelope, or an error envelope.
C4_DefaultDispatch ==
  [][\A m \in Msgs : msg[m].bodyIn = Undefined =>
       /\ NothingAfterwards(m)
       /\ (ResolvedStep(m) /\ DefaultAction \in DOMAIN handlers)
            => /\ Len(msg'[m].invoked) = 1
               /\ msg'[m].invoked[1].handler = handlers[DefaultAction]
               /\ msg'[m].pubs = <<>>
       /\ SettledStep(m)
            => /\ Len(msg'[m].pubs) = 1
               /\ IF msg'[m].outcome[1].kind = "ok"
                  THEN IsSuccessEnvelope(msg'[m].pubs[1], m, msg'[m].outcome[1].value)
                  ELSE EnvType(msg'[m].pubs[1]) = JsString(ErrorType)]_vars

\* C5: a message without action, dispatched while "__default" is not
\* registered, gets exactly one publish, the error envelope
\* {error: "No action specified"}, and no handler is invoked.
C5_NoActionError ==
  [][\A m \in Msgs :
       /\ NothingAfterwards(m)
       /\ (ResolvedStep(m) /\ msg[m].bodyIn = Undefined
             /\ DefaultAction \notin DOMAIN handlers)
            => /\ msg'[m].phase = "done"
               /\ Len(msg'[m].pubs) = 1
               /\ IsErrorEnvelope(msg'[m].pubs[1], m, "No action specified")
               /\ msg'[m].invoked = <<>>]_vars

\* a message without action got the error while "foo" alone was registered
C5_Witness ==
  \E m \in Msgs :
    /\ msg[m].bodyIn = Undefined /\ msg[m].phase = "done"
    /\ Len(msg[m].pubs) = 1
    /\ EnvValue(msg[m].pubs[1]) = JsObject("error", "No action specified")
    /\ msg[m].invoked = <<>>
    /\ DOMAIN handlers = {"foo"}

\* C6: a message whose action n was never registered through handle() gets
\* exactly one publish, the error envelope {error: 'Action "n" doesn't exist'},
\* and nothing is invoked.
C6_UnknownActionError ==
  [][\A m \in Msgs :
       /\ NothingAfterwards(m)
       /\ (ResolvedStep(m) /\ msg[m].bodyIn \in Actions
             /\ msg[m].bodyIn \notin DOMAIN handlers)
            => /\ msg'[m].phase = "done"
               /\ Len(msg'[m].pubs) = 1
               /\ IsErrorEnvelope(msg'[m].pubs[1], m,
                    "Action \"" \o msg[m].bodyIn \o "\" doesn't exist")
               /\ msg'[m].invoked = <<>>]_vars

\* the text a failure carries, whether or not it is an Error object
HasDescription(failure) == failure.message # ""

\* C7 as stated: a failed handler leaves exactly one publish, the error
\* envelope with the failure's description; the fallback text stands only
\* for a failure without description.
C7_FailureDescriptionPublished ==
  \A m \in Msgs :
    (msg[m].outcome # <<>> /\ msg[m].outcome[1].kind = "throw")
      => /\ Len(msg[m].pubs) = 1
         /\ IsErrorEnvelope(msg[m].pubs[1], m,
              IF HasDescription(msg[m].outcome[1])
              THEN msg[m].outcome[1].message ELSE "An error occurred")

\* C7 amended: a failed handler leaves exactly one publish, the error
\* envelope whose text is the failure's message when the failure is an Error
\* object and "An error occurred" when it is anything else.
C7_ErrorMessagePublished ==
  \A m \in Msgs :
    (msg[m].outcome # <<>> /\ msg[m].outcome[1].kind = "throw")
      => /\ Len(msg[m].pubs) = 1
         /\ IsErrorEnvelope(msg[m].pubs[1], m,
              IF msg[m].outcome[1].isError
              THEN msg[m].outcome[1].message ELSE "An error occurred")

\* one handler rejected with Error("boom"), another with the string "boom"
C7_Witness ==
  /\ msg[1].outcome = <<ThrowOutcome(TRUE, "boom")>>
  /\ EnvValue(msg[1].pubs[1]) = JsObject("error", "boom")
  /\ msg[2].outcome = <<ThrowOutcome(FALSE, "boom")>>
  /\ EnvValue(msg[2].pubs[1]) = JsObject("error", "An error occurred")

\* the steps of message m other than the acknowledgement have left a mark
Processed(m) ==
  \/ msg[m].headerContent # <<>> \/ msg[m].body # <<>>
  \/ msg[m].sidAsked # <<>> \/ msg[m].invoked # <<>>
  \/ msg[m].pubs # <<>> \/ msg[m].fault # "none"

\* C11: for every non-null delivery the acknowledgement is the first step:
\* it precedes header decoding, body extraction, the address lookup, the
\* handler invocation and every publish, and no step of the message exists
\* without it.
C11_AckBeforeProcessing ==
  \A m \in Msgs :
    /\ msg[m].phase \notin {"idle", "null"} => msg[m].trace # <<>>
    /\ msg[m].trace # <<>> => msg[m].trace[1] = "ack"
    /\ \A i \in DOMAIN msg[m].trace : i > 1 => msg[m].trace[i] # "ack"
    /\ Processed(m) => msg[m].acks >= 1

\* one message went through decoding, lookup, invocation and publish, and
\* another one failed to decode; both were acknowledged first
C11_Witness ==
  \E a, b \in Msgs :
    /\ msg[a].trace = <<"ack", "parseHeader", "bodyMapper", "lookup", "invoke",
                        "resolved", "publishSuccess">>
    /\ msg[a].pubs # <<>> /\ msg[a].acks = 1
    /\ msg[b].trace = <<"ack", "parseHeader">>
    /\ msg[b].fault = "decode" /\ msg[b].acks = 1

\* the handler of message m has failed
Failed(m) == msg[m].outcome # <<>> /\ msg[m].outcome[1].kind = "throw"

\* the step in which the handler of message m fails
FailureStep(m) == SettledStep(m) /\ msg'[m].outcome[1].kind = "throw"

\* k is the delivery the broker makes next
NextDelivery(k) ==
  /\ msg[k].phase = "idle" /\ channelOpen
  /\ \A j \in Msgs : msg[j].phase # "null" /\ (j < k => msg[j].phase # "idle")

\* C12: a handler failure is caught inside its own message: the step changes
\* neither the registry nor any other message and, on an open channel, lets
\* no exception out of the callback.  After it the broker's next delivery is
\* still consumed, every delivered message has been acknowledged, and every
\* message in flight takes its next step to its own outcome as soon as its
\* lookup or handler settles.
C12_FailureKeepsLoopAlive ==
  /\ [][\A m \in Msgs : FailureStep(m) =>
          /\ handlers' = handlers /\ channelOpen' = channelOpen
          /\ \A k \in Msgs \ {m} : msg'[k] = msg[k]
          /\ channelOpen => msg'[m].fault = "none"]_vars
  /\ [](\A m, k \in Msgs : Failed(m) =>
          /\ NextDelivery(k) =>
               \A wellFormed \in BOOLEAN, bodyIn \in BodyInputs :
                 ENABLED Consume(k, wellFormed, bodyIn)
          /\ msg[k].phase \notin {"idle", "null"} => msg[k].acks = 1
          /\ msg[k].phase = "lookup" =>
               \A kind \in StoreAnswerKinds : ENABLED LookupSettles(k, kind)
          /\ msg[k].phase = "handler" =>
               \A outcome \in OutcomesOf(msg[k].invoked[1].handler,
                                         msg[k].invoked[1].body) :
                 ENABLED HandlerSettles(k, outcome))

\* the handler of message 1 failed and its error envelope went out; message 2
\* was acknowledged, dispatched and answered with a success envelope
C12_Witness ==
  /\ Failed(1) /\ msg[1].fault = "none"
  /\ msg[1].trace = <<"ack", "parseHeader", "bodyMapper", "lookup", "invoke",
                      "rejected", "catch", "publishError">>
  /\ msg[2].trace = <<"ack", "parseHeader", "bodyMapper", "lookup", "invoke",
                      "resolved", "publishSuccess">>
  /\ msg[2].acks = 1 /\ Len(msg[2].pubs) = 1
  /\ EnvType(msg[2].pubs[1]) = JsString(SuccessType)

\* the actions a message may name
ResolvableKeys == RegistryKeys \cup Actions \cup FnProtoKeys

\* C13: handle(key, h) binds key to h, whatever it was bound to before, and
\* leaves what every other key resolves to unchanged; so after any sequence
\* of handle() calls each action resolves to the handler of the last call
\* made for it.
C13_HandleOverwrites ==
  [][\A key \in RegistryKeys, handler \in UserHandlers :
       Handle(key, handler) =>
         /\ InHandlers(handlers', key)
         /\ GetHandler(handlers', key) = handler
         /\ \A other \in ResolvableKeys \ {key} :
              /\ InHandlers(handlers', other) = InHandlers(handlers, other)
              /\ GetHandler(handlers', other) = GetHandler(handlers, other)]_vars

\* the header or the body of delivery m could not be decoded
Undecodable(m) ==
  /\ msg[m].phase \notin {"idle", "null"}
  /\ ~msg[m].wellFormed \/ msg[m].bodyIn = BodyThrows

\* C14: a message whose header or body cannot be decoded is acknowledged,
\* the fault leaves its callback, and the message gets no address lookup, no
\* handler invocation and no publish.
C14_DecodeFaultNoResponse ==
  \A m \in Msgs : Undecodable(m) =>
    /\ msg[m].acks = 1
    /\ msg[m].phase = "done" /\ msg[m].fault = "decode"
    /\ msg[m].sidAsked = <<>> /\ msg[m].rk = "none"
    /\ msg[m].context = <<>> /\ msg[m].invoked = <<>>
    /\ msg[m].pubs = <<>>

\* one message had a malformed header, the other a body that bodyMapper
\* could not extract, while handlers were registered
C14_Witness ==
  \E a, b \in Msgs :
    /\ msg[a].trace = <<"ack", "parseHeader">> /\ ~msg[a].wellFormed
    /\ msg[b].trace = <<"ack", "parseHeader", "bodyMapper">>
    /\ msg[b].bodyIn = BodyThrows
    /\ msg[a].fault = "decode" /\ msg[b].fault = "decode"
    /\ DOMAIN handlers = {"foo", DefaultAction}

\* the step is a handle(key, handler) call
HandleStep ==
  /\ \E r \in Registrations : handlers' = SetHandler(handlers, r[1], r[2])
  /\ msg' = msg

\* C15: the registry changes only in a handle() call.  Every step of a
\* message's processing (consume, drop, missing action, unknown action,
\* dispatch with or without defaulting the action, handler success, handler
\* failure) leaves the registered keys and their handlers as they were.
C15_RegistryFrame ==
  [][/\ handlers' # handlers => HandleStep
     /\ \A m \in Msgs : msg'[m] # msg[m] =>
          /\ DOMAIN handlers' = DOMAIN handlers
          /\ \A key \in DOMAIN handlers : handlers'[key] = handlers[key]]_vars

\* with "__default" alone registered, one message without action was
\* dispatched to it under the defaulted action and failed, and one message
\* with an unknown action was answered; the registry still holds that one key
C15_Witness ==
  \E a, b \in Msgs :
    /\ msg[a].bodyIn = Undefined /\ msg[a].body # <<>>
    /\ msg[a].body[1].action = DefaultAction
    /\ msg[a].outcome = <<ThrowOutcome(TRUE, "boom")>>
    /\ msg[b].bodyIn = "ghost" /\ msg[b].phase = "done" /\ msg[b].pubs # <<>>
    /\ DOMAIN handlers = {DefaultAction}

\* the lifecycle states a step of the callback enters
StatesEntered(step) ==
  CASE step = "ack" -> <<"Acked">>
    [] step = "bodyMapper" -> <<"Parsed">>
    [] step = "drop" -> <<"Dropped">>
    [] step = "noAction" -> <<"AddressResolved", "ErrorNoAction">>
    [] step = "unknownAction" -> <<"AddressResolved", "ErrorUnknownAction">>
    [] step = "invoke" -> <<"AddressResolved", "Dispatched">>
    [] OTHER -> <<>>

RECURSIVE StatesAlong(_)
StatesAlong(steps) ==
  IF steps = <<>> THEN <<>>
  ELSE StatesEntered(Head(steps)) \o StatesAlong(Tail(steps))

\* the lifecycle of delivery m so far; each channel.publish call enters
\* Published, for the success or the error type of its envelope
Lifecycle(m) ==
  IF msg[m].phase \in {"idle", "null"} THEN <<>>
  ELSE <<"Received">> \o StatesAlong(msg[m].trace)
         \o [i \in DOMAIN msg[m].pubs |->
               IF EnvType(msg[m].pubs[i]) = JsString(SuccessType)
               THEN "Published(success)" ELSE "Published(error)"]

Decoded == <<"Received", "Acked", "Parsed">>
LifecyclePaths ==
  {Decoded \o <<"Dropped">>,
   Decoded \o <<"AddressResolved", "ErrorNoAction", "Published(error)">>,
   Decoded \o <<"AddressResolved", "ErrorUnknownAction", "Published(error)">>,
   Decoded \o <<"AddressResolved", "Dispatched", "Published(success)">>,
   Decoded \o <<"AddressResolved", "Dispatched", "Published(error)">>}

IsPrefix(s, t) == Len(s) <= Len(t) /\ SubSeq(t, 1, Len(s)) = s

\* delivery m decoded and its lookup did not reject
Processable(m) ==
  msg[m].phase \in {"lookup", "handler", "done"}
    /\ msg[m].fault \notin {"decode", "lookup"}

\* C16: a message that decodes, whose lookup answers and whose handler (if
\* invoked) settles, moves only along Received, Acked, Parsed, then Dropped
\* or AddressResolved, then ErrorNoAction, ErrorUnknownAction or Dispatched,
\* then Published, without skipping or revisiting a state; it ends in exactly
\* one of Dropped, Published(success), Published(error), and it does end.
C16_Lifecycle ==
  /\ [](\A m \in Msgs : Processable(m) =>
          /\ \E path \in LifecyclePaths : IsPrefix(Lifecycle(m), path)
          /\ msg[m].phase = "done" => Lifecycle(m) \in LifecyclePaths)
  /\ \A m \in Msgs :
       msg[m].phase \in {"lookup", "handler"} ~> msg[m].phase = "done"

\* the callback of delivery m is suspended at one of its two awaits
Pending(m) == msg[m].phase \in {"lookup", "handler"}

\* C17: a message suspended in its lookup or in its handler blocks no other
\* message: while it is pending the next delivery is consumed and any other
\* message's lookup or handler can settle, and those steps leave the pending
\* message as it is; so a later message can be answered first, also within
\* one session.
C17_PendingDoesNotBlock ==
  /\ [](\A a, b \in Msgs : (a # b /\ Pending(a)) =>
          /\ NextDelivery(b) =>
               \A wellFormed \in BOOLEAN, bodyIn \in BodyInputs :
                 ENABLED Consume(b, wellFormed, bodyIn)
          /\ msg[b].phase = "lookup" =>
               \A kind \in StoreAnswerKinds : ENABLED LookupSettles(b, kind)
          /\ msg[b].phase = "handler" =>
               \A outcome \in OutcomesOf(msg[b].invoked[1].handler,
                                         msg[b].invoked[1].body) :
                 ENABLED HandlerSettles(b, outcome))
  /\ [][\A a, b \in Msgs : (a # b /\ msg'[b] # msg[b]) => msg'[a] = msg[a]]_vars

\* messages 1 and 2 belong to the same session; message 2, delivered second,
\* has been acknowledged, dispatched and answered while message 1 still
\* waits for its lookup
C17_Witness ==
  /\ SessionOf(1) = SessionOf(2)
  /\ msg[1].phase = "lookup" /\ msg[1].pubs = <<>>
  /\ msg[2].trace = <<"ack", "parseHeader", "bodyMapper", "lookup", "invoke",
                      "resolved", "publishSuccess">>
  /\ Len(msg[2].pubs) = 1 /\ msg[2].pubs[1].ok
  /\ msg[2].pubs[1].routingKey = KeyOf(SessionOf(1))

\* what delivery m was given: its header and body, the store's answer for
\* its session, how its handler settled, and whether the channel took its
\* publish
InputsOf(m) ==
  [wellFormed |-> msg[m].wellFormed, bodyIn |-> msg[m].bodyIn,
   answer |-> IF msg[m].fault = "lookup" THEN Rejects
              ELSE IF msg[m].rk \in {"none", Undefined, Null} THEN msg[m].rk
              ELSE "key",
   outcome |-> msg[m].outcome,
   channelFailed |-> msg[m].fault = "publish"]

\* what came of delivery m, each publish described relative to the message's
\* own call id, session and headers
OutcomeOf(m) ==
  [fault |-> msg[m].fault, trace |-> msg[m].trace,
   invoked |-> [i \in DOMAIN msg[m].invoked |-> msg[m].invoked[i].handler],
   pubs |-> [i \in DOMAIN msg[m].pubs |->
              [exchange |-> msg[m].pubs[i].exchange,
               ownKey |-> msg[m].pubs[i].routingKey = KeyOf(SessionOf(m)),
               value |-> EnvValue(msg[m].pubs[i]),
               type |-> EnvType(msg[m].pubs[i]),
               ownCall |-> EnvCallID(msg[m].pubs[i]) = JsString(CallOf(m)),
               ownHeaders |-> msg[m].pubs[i].headers
                                = HeadersOf(m, msg[m].wellFormed),
               ok |-> msg[m].pubs[i].ok]]]

\* C18: with the registry held fixed, what comes of a message (dropped, or
\* the envelope, routing key and headers published) is determined by what
\* that message was given: two messages given the same end the same way,
\* whichever was delivered first and however their steps interleaved.
C18_NoCrossMessageState ==
  \A a, b \in Msgs :
    (msg[a].phase = "done" /\ msg[b].phase = "done" /\ InputsOf(a) = InputsOf(b))
      => OutcomeOf(a) = OutcomeOf(b)

\* two messages with the same action, the same store answer and the same
\* handler result have both been answered, each with its own call id and key
C18_Witness ==
  /\ msg[1].phase = "done" /\ msg[2].phase = "done"
  /\ InputsOf(1) = InputsOf(2) /\ msg[1].bodyIn = "foo"
  /\ msg[1].outcome = <<OkOutcome(ResultBar)>>
  /\ Len(msg[1].pubs) = 1 /\ Len(msg[2].pubs) = 1
  /\ EnvCallID(msg[1].pubs[1]) = JsString("call-1")
  /\ EnvCallID(msg[2].pubs[1]) = JsString("call-2")
  /\ msg[1].pubs[1].routingKey # msg[2].pubs[1].routingKey

\* step occurs among the steps of delivery m
Took(m, step) == \E i \in DOMAIN msg[m].trace : msg[m].trace[i] = step

\* value has the shape { error: string }
IsErrorValue(value) == Len(value) = 3 /\ value[1] = "obj" /\ value[2] = "error"

\* C19: every published envelope is tagged successType or errorType;
\* successType only when the message's handler was invoked and resolved,
\* errorType, with a value { error: string }, only when the action was
\* missing without a default handler, the action was unknown, or the handler
\* itself failed.
C19_EnvelopeTypes ==
  \A m \in Msgs : \A i \in DOMAIN msg[m].pubs :
    LET type == EnvType(msg[m].pubs[i])
    IN  /\ type \in {JsString(SuccessType), JsString(ErrorType)}
        /\ type = JsString(SuccessType) =>
             /\ msg[m].invoked # <<>>
             /\ msg[m].outcome # <<>> /\ msg[m].outcome[1].kind = "ok"
        /\ type = JsString(ErrorType) =>
             /\ IsErrorValue(EnvValue(msg[m].pubs[i]))
             /\ \/ Took(m, "noAction") /\ msg[m].bodyIn = Undefined
                \/ Took(m, "unknownAction")
                \/ msg[m].outcome # <<>> /\ msg[m].outcome[1].kind = "throw"

\* C20: for every message at most one handler call is made; none is made for
\* a message dropped for an absent address, for one answered
\* "No action specified", or for one answered with the unknown-action error.
C20_AtMostOneInvocation ==
  \A m \in Msgs :
    /\ Len(msg[m].invoked) <= 1
    /\ msg[m].rk \in {Undefined, Null} => msg[m].invoked = <<>>
    /\ Took(m, "drop") => msg[m].invoked = <<>>
    /\ Took(m, "noAction") => msg[m].invoked = <<>>
    /\ Took(m, "unknownAction") => msg[m].invoked = <<>>
    /\ \A i \in DOMAIN msg[m].pubs :
         EnvValue(msg[m].pubs[i])
             \in {JsObject("error", NoActionText),
                  JsObject("error", UnknownActionText(msg[m].bodyIn))}
           => msg[m].invoked = <<>>

\* with "foo" registered, one message for "foo" invoked its handler once and
\* is finished; another for "foo" was dropped on an absent address without
\* any invocation
C20_Witness ==
  \E a, b \in Msgs :
    /\ "foo" \in DOMAIN handlers
    /\ msg[a].bodyIn = "foo" /\ msg[a].phase = "done"
    /\ Len(msg[a].invoked) = 1 /\ msg[a].invoked[1].handler \in UserHandlers
    /\ msg[b].bodyIn = "foo" /\ msg[b].phase = "done"
    /\ msg[b].rk = Undefined /\ msg[b].invoked = <<>>

\* C21: the handler is called with the session descriptor decoded from the
\* message's own header, unchanged, and with the body bodyMapper gave for
\* that message; the body's action is "__default" when the message came
\* without one and the supplied action otherwise.
C21_HandlerArguments ==
  \A m \in Msgs : \A i \in DOMAIN msg[m].invoked :
    /\ msg[m].invoked[i].session = InboundHeader(m).sessionData
    /\ msg[m].invoked[i].session
         = [sessionID |-> SessionOf(m), userID |-> UserOf(m)]
    /\ msg[m].invoked[i].body.data = BodyOf(m, msg[m].bodyIn).data
    /\ msg[m].invoked[i].body.action
         = IF msg[m].bodyIn = Undefined THEN "__default" ELSE msg[m].bodyIn

\* two messages of different sessions are at their handlers: the first came
\* without action and runs the default handler, the second named "foo"
C21_Witness ==
  /\ msg[1].bodyIn = Undefined /\ Len(msg[1].invoked) = 1
  /\ msg[1].invoked[1].handler = "h2"
  /\ msg[1].invoked[1].body = [action |-> "__default", data |-> "data-1"]
  /\ msg[1].invoked[1].session.sessionID = "session-A"
  /\ msg[2].bodyIn = "foo" /\ Len(msg[2].invoked) = 1
  /\ msg[2].invoked[1].body = [action |-> "foo", data |-> "data-2"]
  /\ msg[2].invoked[1].session.sessionID = "session-B"

\* the ways the processing of a message ends
EndedBy(m) ==
  IF msg[m].fault = "decode" THEN "decode failure"
  ELSE IF Took(m, "drop") THEN "drop"
  ELSE IF Took(m, "noAction") \/ Took(m, "unknownAction") THEN "error envelope"
  ELSE IF msg[m].outcome # <<>> /\ msg[m].outcome[1].kind = "ok"
  THEN "handler success"
  ELSE IF msg[m].outcome # <<>> THEN "handler failure"
  ELSE "other"

\* C22: every non-null delivery is acknowledged exactly once, from its
\* consumption on and however it ends (drop, decode failure, error envelope,
\* handler success, handler failure); a null delivery causes no
\* acknowledgement, no lookup, no handler call and no publish.
C22_AckExactlyOnce ==
  \A m \in Msgs :
    /\ msg[m].phase \in {"lookup", "handler", "done"} => msg[m].acks = 1
    /\ msg[m].phase \in {"idle", "null"} => msg[m].acks = 0
    /\ msg[m].phase = "null" =>
         /\ msg[m].trace = <<>> /\ msg[m].sidAsked = <<>>
         /\ msg[m].rk = "none" /\ msg[m].invoked = <<>> /\ msg[m].pubs = <<>>

\* a message whose handler failed was acknowledged once, and the null
\* delivery that followed it left nothing behind
C22_Witness ==
  /\ msg[1].phase = "done" /\ EndedBy(1) = "handler failure"
  /\ msg[1].acks = 1
  /\ msg[2].phase = "null" /\ msg[2].acks = 0 /\ msg[2].pubs = <<>>

\* the action delivery m is dispatched under
ActionOf(m) == IF msg[m].bodyIn = Undefined THEN "__default" ELSE msg[m].bodyIn

\* C23: the handler of a message is selected from the registry as it is when
\* the lookup has answered, in one step with the missing-action check and
\* the existence check: the handler called is the binding the registry holds
\* in that step, including one made by handle() while the lookup was pending;
\* a handle() call changes no message, so it cannot come between the check
\* and the call, and no call is made at any other time.
C23_SelectionAfterLookup ==
  [][\A m \in Msgs :
       /\ NothingAfterwards(m)
       /\ handlers' # handlers => msg'[m] = msg[m]
       /\ msg[m].phase = "idle" => msg'[m].invoked = <<>>
       /\ ResolvedStep(m) =>
            /\ handlers' = handlers
            /\ (msg[m].bodyIn = Undefined /\ DefaultAction \notin DOMAIN handlers)
                 => msg'[m].invoked = <<>>
            /\ ActionOf(m) \in DOMAIN handlers =>
                 /\ Len(msg'[m].invoked) = 1
                 /\ msg'[m].invoked[1].handler = handlers[ActionOf(m)]
            /\ \A i \in DOMAIN msg'[m].invoked :
                 msg'[m].invoked[i].handler \in UserHandlers =>
                   /\ ActionOf(m) \in DOMAIN handlers
                   /\ msg'[m].invoked[i].handler = handlers[ActionOf(m)]]_vars

\* message 1 is the only delivery so far and the registry was empty when it
\* was consumed: "foo" was bound to h2 while its lookup was pending, and
\* message 1 is at h2
C23_Witness ==
  /\ msg[1].bodyIn = "foo" /\ msg[1].phase = "handler"
  /\ msg[1].invoked[1].handler = "h2"
  /\ handlers = [foo |-> "h2"]
  /\ msg[2].phase = "idle"

====
